---- MODULE Spec2Model ----
(***************************************************************************)
(* The ntfy client (package client): Publish, Poll, Subscribe and          *)
(* Unsubscribe of one Client, the per-subscription reconnect loops, the    *)
(* stream engine they share with Poll, and the shared Messages channel.    *)
(* Strings the code inspects (topics, response bodies) are sequences of    *)
(* one-character strings, so that prefix tests, the topic pattern and      *)
(* TrimSpace are computed and not assumed.                                 *)
(***************************************************************************)
EXTENDS Integers, Sequences, FiniteSets, TLC

(* ------------------------------ bounds --------------------------------- *)

\* Number of concurrent callers (application threads) of the Client.
NCallers == 2
\* Number of subscription ids the generator can hand out.
MaxSubs == 2
\* Lines the servers send in total, over all connections, where streams matter.
MaxLines == 3
\* API calls (Publish, Poll, Subscribe, Unsubscribe) made in total, where the
\* registry matters.
MaxCalls == 3
\* Calls of Poll and Publish, where their streams and responses matter.
MaxPollCalls == 1
\* Calls of Subscribe and Unsubscribe, where their arguments matter.
MaxOptionCalls == 2
MaxFullCalls == 1
MaxTopicChars == 2
\* Seconds that pass in one step of the clock.
TickSeconds == 10
MaxMixedCalls == 2
MaxMixedLines == 2

(* ------------------------- program constants --------------------------- *)

\* make(chan *Message, 50)
QueueCap == 50
\* time.After(10 * time.Second), in seconds
RetryDelay == 10
maxResponseBytes == 4096
\* topicRegex: {1,64}
MaxTopicLen == 64
StatusOK == 200

MessageEvent == "message"

Callers == 1..NCallers
IDs == 1..MaxSubs

(* ------------------------------ strings -------------------------------- *)

Min(a, b) == IF a < b THEN a ELSE b

HasPrefix(s, p) == Len(s) >= Len(p) /\ SubSeq(s, 1, Len(p)) = p

\* strings.Contains(s, ch) for a one-character ch
Contains(s, ch) == \E i \in 1..Len(s) : s[i] = ch

HttpPrefix == <<"h", "t", "t", "p", ":", "/", "/">>
HttpsPrefix == <<"h", "t", "t", "p", "s", ":", "/", "/">>

Letters ==
    {"a", "b", "c", "d", "e", "f", "g", "h", "i", "j", "k", "l", "m",
     "n", "o", "p", "q", "r", "s", "t", "u", "v", "w", "x", "y", "z",
     "A", "B", "C", "D", "E", "F", "G", "H", "I", "J", "K", "L", "M",
     "N", "O", "P", "Q", "R", "S", "T", "U", "V", "W", "X", "Y", "Z"}
Digits == {"0", "1", "2", "3", "4", "5", "6", "7", "8", "9"}

\* ^[-_A-Za-z0-9]{1,64}$
topicRegex(s) ==
    /\ Len(s) >= 1
    /\ Len(s) <= MaxTopicLen
    /\ \A i \in 1..Len(s) : s[i] \in Letters \cup Digits \cup {"-", "_"}

\* unicode.IsSpace on the characters used here
IsSpace(ch) == ch \in {" ", "\n", "\t", "\r"}

RECURSIVE TrimLeft(_)
TrimLeft(s) == IF s # <<>> /\ IsSpace(Head(s)) THEN TrimLeft(Tail(s)) ELSE s

RECURSIVE TrimRight(_)
TrimRight(s) ==
    IF s # <<>> /\ IsSpace(s[Len(s)]) THEN TrimRight(SubSeq(s, 1, Len(s) - 1)) ELSE s

\* A text that is used as it was read.
MutTrimSpace(s) == s

TrimSpace(s) == TrimRight(TrimLeft(s))

\* io.LimitReader(resp.Body, maxResponseBytes)
LimitReader(b) == SubSeq(b, 1, Min(Len(b), maxResponseBytes))

(* ------------------------------- errors -------------------------------- *)

Nil == [kind |-> "nil", text |-> <<>>]
Error(k, t) == [kind |-> k, text |-> t]

\* NewConfig: DefaultHost = DefaultBaseURL = "https://ntfy.sh"
DefaultHost ==
    <<"h", "t", "t", "p", "s", ":", "/", "/", "n", "t", "f", "y", ".", "s", "h">>

\* The scenario of this behaviour: what the callers and the servers do, and
\* the configuration the Client was made with.
VARIABLE scn

\* c.config: the default host is NewConfig's unless the application set
\* another one.
config == [DefaultHost |-> scn.host]

\* A resolver that validates the name before it looks for a slash.
MutExpandTopicURL(topic) ==
    IF HasPrefix(topic, HttpPrefix) \/ HasPrefix(topic, HttpsPrefix)
    THEN [url |-> topic, err |-> Nil]
    ELSE IF ~topicRegex(topic)
    THEN [url |-> <<>>, err |-> Error("invalid topic name", topic)]
    ELSE IF Contains(topic, "/")
    THEN [url |-> HttpsPrefix \o topic, err |-> Nil]
    ELSE [url |-> config.DefaultHost \o <<"/">> \o topic, err |-> Nil]

expandTopicURL(topic) ==
    IF HasPrefix(topic, HttpPrefix) \/ HasPrefix(topic, HttpsPrefix)
    THEN [url |-> topic, err |-> Nil]
    ELSE IF Contains(topic, "/")
    THEN [url |-> HttpsPrefix \o topic, err |-> Nil]
    ELSE IF ~topicRegex(topic)
    THEN [url |-> <<>>, err |-> Error("invalid topic name", topic)]
    ELSE [url |-> config.DefaultHost \o <<"/">> \o topic, err |-> Nil]

(* ------------------------- lines and messages -------------------------- *)

\* A line of the stream is the text the server wrote.  json is what
\* encoding/json makes of it: an object (with its event, id and message
\* members), the literal null, or text that does not decode into a Message.
Line(j, e, i, m) == [json |-> j, event |-> e, id |-> i, message |-> m]
LOpen == Line("object", "open", "", "")
LKeepalive == Line("object", "keepalive", "", "")
LOther == Line("object", "poll_request", "", "")
LMsg1 == Line("object", "message", "1", "hi")
LMsg2 == Line("object", "message", "2", "yo")
LBad == Line("malformed", "", "", "")
LEmpty == Line("empty", "", "", "")
\* A JSON value that is neither an object nor null, such as 123 or "x".
LValue == Line("value", "", "", "")
LNull == Line("null", "", "", "")
\* No line yet.
NoLine == Line("none", "", "", "")

\* The pointer a nil *Message decodes to when the text is the literal null.
NilMessage == [ID |-> "", Event |-> "", Message |-> "", TopicURL |-> <<>>,
               SubscriptionID |-> -1, Raw |-> LNull]

\* A toMessage that leaves the subscription id of the decoded value empty.
MutToMessageNoID(s, topicURL, subscriptionID) ==
    IF s.json = "object"
    THEN [m |-> [ID |-> s.id, Event |-> s.event, Message |-> s.message,
                TopicURL |-> topicURL, SubscriptionID |-> 0,
                Raw |-> s],
          err |-> Nil, panic |-> FALSE]
    ELSE IF s.json = "null"
    THEN [m |-> NilMessage, err |-> Nil, panic |-> TRUE]
    ELSE [m |-> NilMessage, err |-> Error("decode", <<>>), panic |-> FALSE]

\* toMessage: Decode(&m), then stamp TopicURL, SubscriptionID and Raw.  The
\* literal null decodes without error and leaves m nil, so the stamping
\* dereferences a nil pointer: panic.
toMessage(s, topicURL, subscriptionID) ==
    IF s.json = "object"
    THEN [m |-> [ID |-> s.id, Event |-> s.event, Message |-> s.message,
                TopicURL |-> topicURL, SubscriptionID |-> subscriptionID,
                Raw |-> s],
          err |-> Nil, panic |-> FALSE]
    ELSE IF s.json = "null"
    THEN [m |-> NilMessage, err |-> Nil, panic |-> TRUE]
    ELSE [m |-> NilMessage, err |-> Error("decode", <<>>), panic |-> FALSE]

(* ------------------------------- options ------------------------------- *)

\* An option is a closure over the request: it sets a header or a query
\* parameter (and returns nil), or it returns an error.
OptionFails(o) == o \in {"bad1", "bad2"}

\* A request that gets every option that succeeds and reports the error of
\* the last one that fails.
MutApplyOptions(options, applied) ==
    LET bad == SelectSeq(options, OptionFails)
        good == SelectSeq(options, LAMBDA o : ~OptionFails(o))
    IN  [applied |-> applied \o good,
         err |-> IF bad = <<>> THEN Nil ELSE Error("option", <<bad[Len(bad)]>>)]

\* for _, option := range options { if err := option(req); err != nil { return err } }
RECURSIVE ApplyOptions(_, _)
ApplyOptions(options, applied) ==
    IF options = <<>>
    THEN [applied |-> applied, err |-> Nil]
    ELSE IF OptionFails(Head(options))
    THEN [applied |-> applied, err |-> Error("option", <<Head(options)>>)]
    ELSE ApplyOptions(Tail(options), Append(applied, Head(options)))

\* WithPoll
WithPoll == "poll"

(* ------------------------------ network ------------------------------- *)

\* What http.DefaultClient.Do yields: a transport error, or a response with
\* a status; body is the text of a non-200 response, line is what the body of
\* a 200 response to a POST decodes from.
Response(k, st, b, l) == [kind |-> k, status |-> st, body |-> b, line |-> l]
RTransport == Response("transport", 0, <<>>, LBad)
ROk == Response("response", StatusOK, <<>>, LMsg1)
RQuota == Response("response", 429, <<" ", "n", "o", "\n">>, LBad)
\* The example of the specification, as a server writes it: with a newline.
RExceeded ==
    Response("response", 429,
             <<"q", "u", "o", "t", "a", " ", "e", "x", "c", "e", "e", "d", "e", "d", "\n">>,
             LBad)
\* A body longer than maxResponseBytes, with white space at the cap.
RBig ==
    Response("response", 500,
             [k \in 1..(maxResponseBytes + 2) |->
                 IF k <= maxResponseBytes - 2 THEN "x"
                 ELSE IF k <= maxResponseBytes THEN " " ELSE "y"],
             LBad)
\* No response.
NoResponse == Response("none", 0, <<>>, NoLine)

\* The host of a URL with a scheme: what is between the scheme and the next
\* slash.
RECURSIVE UpToSlash(_)
UpToSlash(s) == IF s = <<>> \/ Head(s) = "/" THEN <<>> ELSE <<Head(s)>> \o UpToSlash(Tail(s))
HostOf(url) ==
    IF HasPrefix(url, HttpPrefix) THEN UpToSlash(SubSeq(url, Len(HttpPrefix) + 1, Len(url)))
    ELSE IF HasPrefix(url, HttpsPrefix)
    THEN UpToSlash(SubSeq(url, Len(HttpsPrefix) + 1, Len(url)))
    ELSE <<>>

\* http.NewRequest(method, url, body): url.Parse refuses a URL with a control
\* character, and one with a space in its host.
NewRequest(url) ==
    IF Contains(url, "\n") \/ Contains(HostOf(url), " ")
    THEN Error("parse", url)
    ELSE Nil

\* streamURL := fmt.Sprintf("%s/json", topicURL)
StreamURL(topicURL) == topicURL \o <<"/", "j", "s", "o", "n">>

\* A request that is sent whatever its options return.
MutOpenStream(canceled, topicURL, options, outcome) ==
    IF NewRequest(StreamURL(topicURL)) # Nil THEN NewRequest(StreamURL(topicURL))
    ELSE IF canceled THEN Error("context canceled", <<>>)
    ELSE IF outcome.kind = "transport" THEN Error("transport", <<>>)
    ELSE IF outcome.status # StatusOK
    THEN Error("status", TrimSpace(LimitReader(outcome.body)))
    ELSE Nil

\* A request whose context is not looked at.
MutOpenStreamNoContext(canceled, topicURL, options, outcome) ==
    LET o == ApplyOptions(options, <<>>) IN
    IF NewRequest(StreamURL(topicURL)) # Nil THEN NewRequest(StreamURL(topicURL))
    ELSE IF o.err # Nil THEN o.err
    ELSE IF outcome.kind = "transport" THEN Error("transport", <<>>)
    ELSE IF outcome.status # StatusOK
    THEN Error("status", TrimSpace(LimitReader(outcome.body)))
    ELSE Nil

\* performSubscribeRequest up to the scanner: the request, the options, Do,
\* the status.
\* Nil means the stream is open.
OpenStream(canceled, topicURL, options, outcome) ==
    LET o == ApplyOptions(options, <<>>) IN
    IF NewRequest(StreamURL(topicURL)) # Nil THEN NewRequest(StreamURL(topicURL))
    ELSE IF o.err # Nil THEN o.err
    ELSE IF canceled THEN Error("context canceled", <<>>)
    ELSE IF outcome.kind = "transport" THEN Error("transport", <<>>)
    ELSE IF outcome.status # StatusOK
    THEN Error("status", TrimSpace(LimitReader(outcome.body)))
    ELSE Nil

(* ------------------------------ scenarios ------------------------------ *)

\* An option that succeeds, then two that fail.
OptionsMixed == <<"title", "bad2", "bad1">>

TopicGood == <<"t">>
TopicBad == <<"b", "!">>

\* What the callers and the servers may do in a behaviour: how many callers
\* make how many calls of which operations with which arguments, how many
\* lines of which kinds the servers send, how they answer a request,
\* whether they ever end a stream, and how many messages the application
\* leaves in the channel before it takes one.  The client's own steps are the same in
\* all of them.
Scenario(n, nc, calls, ops, topics, options, lines, lineSet, outcomes, closes, backlog,
         host) ==
    [name |-> n, callers |-> nc, calls |-> calls, ops |-> ops, topics |-> topics,
     options |-> options, lines |-> lines, lineSet |-> lineSet, outcomes |-> outcomes,
     closes |-> closes, backlog |-> backlog, host |-> host]

\* Concurrent callers subscribing and unsubscribing; a message per behaviour.
ScnRegistry ==
    Scenario("registry", NCallers, MaxCalls, {"subscribe", "unsubscribe"},
             {TopicGood}, {<<>>}, 1, {LMsg1}, {ROk}, FALSE, 0, DefaultHost)
\* One caller subscribing; the streams of the subscriptions, which the
\* servers keep open.
ScnStream ==
    Scenario("stream", 1, MaxSubs, {"subscribe"},
             {TopicGood}, {<<>>}, MaxLines, {LMsg1, LMsg2, LBad},
             {ROk}, FALSE, 0, DefaultHost)
\* One caller subscribing; streams that the servers end.
ScnClose ==
    Scenario("close", 1, MaxSubs, {"subscribe"},
             {TopicGood}, {<<>>}, 1, {LMsg1, LBad},
             {ROk}, TRUE, 0, DefaultHost)
\* One caller, one Poll or Publish, with good and bad arguments.
ScnPoll ==
    Scenario("poll", 1, MaxPollCalls, {"publish", "poll"},
             {TopicGood, TopicBad}, {<<>>, <<"bad1">>, OptionsMixed}, MaxLines,
             {LOpen, LKeepalive, LMsg1, LMsg2, LBad, LEmpty, LValue, LNull},
             {ROk, RTransport, RQuota, RExceeded, RBig},
             TRUE, 0, DefaultHost)
\* One caller that subscribes, unsubscribes, polls and publishes while the
\* loops of its subscriptions run.
ScnMixed ==
    Scenario("mixed", 1, MaxMixedCalls, {"subscribe", "unsubscribe", "poll", "publish"},
             {TopicGood}, {<<>>}, MaxMixedLines, {LMsg1}, {ROk}, TRUE, 0, DefaultHost)
\* One caller subscribing with good and bad arguments, and unsubscribing.
ScnOptions ==
    Scenario("options", 1, MaxOptionCalls, {"subscribe", "unsubscribe"},
             {TopicGood, TopicBad}, {<<>>, <<"bad1">>, OptionsMixed}, 1, {LOpen, LNull},
             {ROk, RQuota, RTransport}, TRUE, 0, DefaultHost)
\* One caller unsubscribing, the subscriptions receiving messages, the
\* servers never ending a stream, a slow application.
ScnFull ==
    Scenario("full", 1, MaxFullCalls, {"unsubscribe"},
             {TopicGood}, {<<>>}, MaxLines, {LMsg1}, {ROk}, FALSE, QueueCap - MaxLines,
             DefaultHost)

\* The topics of the specification's examples.
TopicPlain ==
    <<"m", "y", "t", "o", "p", "i", "c">>
TopicHostPath ==
    <<"m", "y", "h", "o", "s", "t", ".", "l", "a", "n", "/", "m", "y", "t", "o", "p",
      "i", "c">>
TopicURL ==
    <<"h", "t", "t", "p", "s", ":", "/", "/", "x", ".", "e", "x", "a", "m", "p", "l",
      "e", "/", "y">>
TopicInvalid ==
    <<"b", "a", "d", " ", "t", "o", "p", "i", "c", "!">>

\* Characters topics are made of: of the name alphabet, and not.
TopicChars == {"a", "Z", "7", "-", "_", "/", "!", " ", "."}
\* n times the character ch
Repeat(ch, n) == [k \in 1..n |-> ch]
\* Every string of at most MaxTopicChars characters, the longest name and
\* the shortest string that is too long, strings with and almost with a
\* scheme, and the examples.
TopicSet ==
    UNION {[1..n -> TopicChars] : n \in 0..MaxTopicChars}
    \cup {Repeat("a", MaxTopicLen), Repeat("a", MaxTopicLen + 1)}
    \cup {HttpPrefix, HttpsPrefix, HttpPrefix \o <<"a">>, HttpsPrefix \o <<"b", "!">>,
          <<"h", "t", "t", "p", ":", "/", "a">>, <<"H">> \o Tail(HttpPrefix) \o <<"a">>,
          <<"a", "\n">>}
    \cup {TopicPlain, TopicHostPath, TopicURL, TopicInvalid}
\* Default hosts of a configuration.
HostSet == {DefaultHost, <<"h">>, <<>>}

\* One caller publishing once, to any topic, with any default host.
ScnTopics(host) ==
    Scenario("topics", 1, 1, {"publish"}, TopicSet, {<<>>}, 1, {LMsg1}, {ROk, RTransport},
             FALSE, 0, host)

Scenarios ==
    {ScnRegistry, ScnStream, ScnClose, ScnPoll, ScnOptions, ScnMixed}
        \cup {ScnTopics(host) : host \in HostSet}

(* ------------------------------- state --------------------------------- *)

VARIABLES
    Messages,       \* c.Messages: the buffered channel, oldest first
    subscriptions,  \* c.subscriptions: id -> subscription
    mu,             \* c.mu: 0 when free, else the caller holding it
    ctxDone,        \* per id: the context of the subscription is canceled
    cancelCalls,    \* per id: how often sub.cancel() was invoked
    issued,         \* the ids Subscribe has generated (history)
    cpc,            \* per caller: where it is in its API call
    carg,           \* per caller: the arguments of the call in progress
    ret,            \* per caller: what its last call returned
    ncalls,         \* API calls made so far
    hpc,            \* per caller: where Poll's helper goroutine is
    hmsg,           \* per caller: the message the helper is sending
    herr,           \* per caller: what performSubscribeRequest returned to the helper
    pmsgs,          \* per caller: Poll's messages slice
    pscan,          \* per caller: the lines Poll's stream has yielded (history)
    pconn,          \* per caller: Poll's request: "none", "failed" or "open" (history)
    preq,           \* per caller: the request Poll or Publish built last (history)
    lpc,            \* per id: where the reconnect loop is
    largs,          \* per id: topicURL, id and options the loop was started with
    lmsg,           \* per id: the message the loop is sending
    lerr,           \* per id: what the last attempt returned
    lastLine,       \* per id: the line scanned last in the current attempt (history)
    timer,          \* per id: seconds since time.After was started
    pending,        \* per id: messages received and not yet taken by the consumer (history)
    lreq,           \* per id: the request of the loop's last attempt (history)
    unsubscribed,   \* ids Unsubscribe has removed (history)
    nlines,         \* lines sent so far
    crashed         \* a goroutine panicked: the process is gone

vars == <<scn, Messages, subscriptions, mu, ctxDone, cancelCalls, issued, cpc, carg,
          ret, ncalls, hpc, hmsg, herr, pmsgs, pscan, pconn, preq, lpc, largs, lmsg, lerr,
          lastLine, timer, pending, lreq, unsubscribed, nlines, crashed>>

clientVars == <<Messages, subscriptions, mu, ctxDone, cancelCalls, issued, unsubscribed>>
callerVars == <<cpc, carg, ret, ncalls>>
pollVars == <<hpc, hmsg, herr, pmsgs, pscan, pconn, preq>>
loopVars == <<lpc, largs, lmsg, lerr, lastLine, timer, pending, lreq>>

\* The request a task has built: the options that were applied to it, in
\* order, and whether it was handed to http.DefaultClient.Do.
NoReq == [applied |-> <<>>, sent |-> FALSE]
BuildRequest(url, options) ==
    LET o == ApplyOptions(options, <<>>)
    IN  IF NewRequest(url) # Nil THEN NoReq ELSE [applied |-> o.applied, sent |-> o.err = Nil]

\* topic and given are the arguments as the caller passed them (history).
NoArg == [topicURL |-> <<>>, options |-> <<>>, id |-> 0, topic |-> <<>>, given |-> <<>>]
\* What a call returned: err, and id (Subscribe), msgs (Poll; nilmsgs when the
\* slice is nil), m (Publish).  found, topic, options and outcome are
\* history: whether Unsubscribe found the id, the arguments of the call, and
\* what Publish's request met.
NoRet == [op |-> "none", err |-> Nil, id |-> 0, msgs |-> <<>>, nilmsgs |-> TRUE,
          m |-> NilMessage, found |-> FALSE, topic |-> <<>>, options |-> <<>>,
          outcome |-> NoResponse]

\* New(config): an empty registry, an empty channel of capacity QueueCap.
New ==
    /\ Messages = <<>>
    /\ subscriptions = << >>
    /\ mu = 0
    /\ ctxDone = [i \in IDs |-> FALSE]
    /\ cancelCalls = [i \in IDs |-> 0]
    /\ issued = {}
    /\ cpc = [c \in Callers |-> "idle"]
    /\ carg = [c \in Callers |-> NoArg]
    /\ ret = [c \in Callers |-> NoRet]
    /\ ncalls = 0
    /\ hpc = [c \in Callers |-> "none"]
    /\ hmsg = [c \in Callers |-> NilMessage]
    /\ herr = [c \in Callers |-> Nil]
    /\ pmsgs = [c \in Callers |-> <<>>]
    /\ pscan = [c \in Callers |-> <<>>]
    /\ pconn = [c \in Callers |-> "none"]
    /\ preq = [c \in Callers |-> NoReq]
    /\ lpc = [i \in IDs |-> "none"]
    /\ largs = [i \in IDs |-> NoArg]
    /\ lmsg = [i \in IDs |-> NilMessage]
    /\ lerr = [i \in IDs |-> Nil]
    /\ lastLine = [i \in IDs |-> NoLine]
    /\ timer = [i \in IDs |-> 0]
    /\ pending = [i \in IDs |-> <<>>]
    /\ lreq = [i \in IDs |-> NoReq]
    /\ unsubscribed = {}
    /\ nlines = 0
    /\ crashed = FALSE

Init == scn \in Scenarios /\ New

\* A caller may start a call of op when it is idle and the process is alive.
CanCall(c, op) ==
    /\ ~crashed
    /\ c <= scn.callers
    /\ op \in scn.ops
    /\ cpc[c] = "idle"
    /\ ncalls < scn.calls

\* A server may send another line.
CanSend(line) == nlines < scn.lines /\ line \in scn.lineSet

\* A read may fail: the server ended the stream or the connection broke, or
\* the context of the request is canceled.
CanEnd(canceled) == scn.closes \/ canceled

Range(f) == {f[x] : x \in DOMAIN f}

\* m[k] = v
MapPut(m, k, v) == [x \in DOMAIN m \cup {k} |-> IF x = k THEN v ELSE m[x]]
\* delete(m, k)
MapDelete(m, k) == [x \in DOMAIN m \ {k} |-> m[x]]

(* ------------------------ Subscribe, Unsubscribe ----------------------- *)

\* util.RandomString(10): a string no earlier call has returned.  The ids
\* are named in the order they are generated.
RandomString == {i \in IDs \ issued : \A j \in IDs \ issued : i <= j}

\* A generator that returns the same string every time.
MutNewSubscriptionID == {1}

\* subscriptionID := util.RandomString(10)
NewSubscriptionID == RandomString

\* Subscribe up to and including c.mu.Lock(): the topic is resolved, a
\* resolution error returns at once, else the caller takes the lock when it
\* is free.
SubscribeCall(c, topic, options) ==
    /\ CanCall(c, "subscribe")
    /\ topic \in scn.topics
    /\ options \in scn.options
    /\ Cardinality(issued) + Cardinality({d \in Callers : cpc[d] = "sub_cs"}) < MaxSubs
    /\ ncalls' = ncalls + 1
    /\ LET e == expandTopicURL(topic) IN
       IF e.err # Nil
       THEN /\ ret' = [ret EXCEPT ![c] = [NoRet EXCEPT !.op = "subscribe", !.err = e.err,
                                                  !.topic = topic, !.options = options]]
            /\ UNCHANGED <<cpc, carg, mu>>
       ELSE /\ mu = 0
            /\ mu' = c
            /\ cpc' = [cpc EXCEPT ![c] = "sub_cs"]
            /\ carg' = [carg EXCEPT ![c] = [NoArg EXCEPT !.topicURL = e.url, !.options = options,
                                                        !.topic = topic, !.given = options]]
            /\ ret' = [ret EXCEPT ![c] = NoRet]
    /\ UNCHANGED <<scn, Messages, subscriptions, ctxDone, cancelCalls, issued, unsubscribed,
                   pollVars, loopVars, nlines, crashed>>

\* A Subscribe that registers the subscription and starts no goroutine.
MutSubscribeBodyNoLoop(c) ==
    /\ ~crashed
    /\ cpc[c] = "sub_cs"
    /\ \E subscriptionID \in NewSubscriptionID :
        /\ issued' = issued \cup {subscriptionID}
        /\ subscriptions' = MapPut(subscriptions, subscriptionID,
                                   [ID |-> subscriptionID, topicURL |-> carg[c].topicURL])
        /\ ctxDone' = [ctxDone EXCEPT ![subscriptionID] = FALSE]
        /\ lpc' = lpc
        /\ largs' = [largs EXCEPT ![subscriptionID] =
                        [carg[c] EXCEPT !.id = subscriptionID]]
        /\ ret' = [ret EXCEPT ![c] = [NoRet EXCEPT !.op = "subscribe", !.id = subscriptionID,
                                                  !.topic = carg[c].topic,
                                                  !.options = carg[c].given]]
    /\ mu' = 0
    /\ cpc' = [cpc EXCEPT ![c] = "idle"]
    /\ carg' = [carg EXCEPT ![c] = NoArg]
    /\ UNCHANGED <<scn, Messages, cancelCalls, unsubscribed, ncalls, pollVars,
                   lmsg, lerr, lastLine, timer, pending, lreq, nlines, crashed>>

\* A Subscribe without the deferred Unlock.
MutSubscribeBodyNoUnlock(c) ==
    /\ ~crashed
    /\ cpc[c] = "sub_cs"
    /\ \E subscriptionID \in NewSubscriptionID :
        /\ issued' = issued \cup {subscriptionID}
        /\ subscriptions' = MapPut(subscriptions, subscriptionID,
                                   [ID |-> subscriptionID, topicURL |-> carg[c].topicURL])
        /\ ctxDone' = [ctxDone EXCEPT ![subscriptionID] = FALSE]
        /\ lpc' = [lpc EXCEPT ![subscriptionID] = "connect"]
        /\ largs' = [largs EXCEPT ![subscriptionID] =
                        [carg[c] EXCEPT !.id = subscriptionID]]
        /\ ret' = [ret EXCEPT ![c] = [NoRet EXCEPT !.op = "subscribe", !.id = subscriptionID,
                                                  !.topic = carg[c].topic,
                                                  !.options = carg[c].given]]
    /\ mu' = mu
    /\ cpc' = [cpc EXCEPT ![c] = "idle"]
    /\ carg' = [carg EXCEPT ![c] = NoArg]
    /\ UNCHANGED <<scn, Messages, cancelCalls, unsubscribed, ncalls, pollVars,
                   lmsg, lerr, lastLine, timer, pending, lreq, nlines, crashed>>

\* The critical section of Subscribe, the deferred Unlock and the return:
\* a fresh id, its context, the registry entry, the loop's goroutine.
SubscribeBody(c) ==
    /\ ~crashed
    /\ cpc[c] = "sub_cs"
    /\ \E subscriptionID \in NewSubscriptionID :
        /\ issued' = issued \cup {subscriptionID}
        /\ subscriptions' = MapPut(subscriptions, subscriptionID,
                                   [ID |-> subscriptionID, topicURL |-> carg[c].topicURL])
        /\ ctxDone' = [ctxDone EXCEPT ![subscriptionID] = FALSE]
        /\ lpc' = [lpc EXCEPT ![subscriptionID] = "connect"]
        /\ largs' = [largs EXCEPT ![subscriptionID] =
                        [carg[c] EXCEPT !.id = subscriptionID]]
        /\ ret' = [ret EXCEPT ![c] = [NoRet EXCEPT !.op = "subscribe", !.id = subscriptionID,
                                                  !.topic = carg[c].topic,
                                                  !.options = carg[c].given]]
    /\ mu' = 0
    /\ cpc' = [cpc EXCEPT ![c] = "idle"]
    /\ carg' = [carg EXCEPT ![c] = NoArg]
    /\ UNCHANGED <<scn, Messages, cancelCalls, unsubscribed, ncalls, pollVars,
                   lmsg, lerr, lastLine, timer, pending, lreq, nlines, crashed>>

\* A call of Unsubscribe, up to and including c.mu.Lock()
UnsubscribeCall(c, subscriptionID) ==
    /\ CanCall(c, "unsubscribe")
    /\ ncalls' = ncalls + 1
    /\ mu = 0
    /\ mu' = c
    /\ cpc' = [cpc EXCEPT ![c] = "unsub_cs"]
    /\ carg' = [carg EXCEPT ![c] = [NoArg EXCEPT !.id = subscriptionID]]
    /\ ret' = [ret EXCEPT ![c] = NoRet]
    /\ UNCHANGED <<scn, Messages, subscriptions, ctxDone, cancelCalls, issued, unsubscribed,
                   pollVars, loopVars, nlines, crashed>>

\* Unsubscribe with one cancel function shared by all subscriptions.
MutUnsubscribeBodyCancelAll(c) ==
    /\ ~crashed
    /\ cpc[c] = "unsub_cs"
    /\ LET subscriptionID == carg[c].id
           ok == subscriptionID \in DOMAIN subscriptions IN
       /\ IF ~ok
          THEN UNCHANGED <<subscriptions, ctxDone, cancelCalls, unsubscribed>>
          ELSE /\ subscriptions' = MapDelete(subscriptions, subscriptionID)
               /\ ctxDone' = [i \in IDs |-> ctxDone[i] \/ i \in DOMAIN subscriptions]
               /\ cancelCalls' = [i \in IDs |->
                                    IF i \in DOMAIN subscriptions
                                    THEN cancelCalls[i] + 1 ELSE cancelCalls[i]]
               /\ unsubscribed' = unsubscribed \cup {subscriptionID}
       /\ ret' = [ret EXCEPT ![c] = [NoRet EXCEPT !.op = "unsubscribe",
                                                  !.id = subscriptionID, !.found = ok]]
    /\ mu' = 0
    /\ cpc' = [cpc EXCEPT ![c] = "idle"]
    /\ carg' = [carg EXCEPT ![c] = NoArg]
    /\ UNCHANGED <<scn, Messages, issued, ncalls, pollVars, loopVars, nlines, crashed>>

\* Unsubscribe without the test of ok: sub is nil for an unknown id, and
\* sub.cancel() panics.
MutUnsubscribeBodyNoCheck(c) ==
    /\ cpc[c] = "unsub_cs"
    /\ ~crashed
    /\ LET subscriptionID == carg[c].id
           ok == subscriptionID \in DOMAIN subscriptions IN
       /\ IF ~ok
          THEN /\ crashed' = TRUE
               /\ UNCHANGED <<subscriptions, ctxDone, cancelCalls, unsubscribed>>
          ELSE /\ subscriptions' = MapDelete(subscriptions, subscriptionID)
               /\ ctxDone' = [ctxDone EXCEPT ![subscriptionID] = TRUE]
               /\ cancelCalls' = [cancelCalls EXCEPT ![subscriptionID] = @ + 1]
               /\ unsubscribed' = unsubscribed \cup {subscriptionID}
               /\ UNCHANGED crashed
       /\ ret' = [ret EXCEPT ![c] = [NoRet EXCEPT !.op = "unsubscribe",
                                                  !.id = subscriptionID, !.found = ok]]
    /\ mu' = 0
    /\ cpc' = [cpc EXCEPT ![c] = "idle"]
    /\ carg' = [carg EXCEPT ![c] = NoArg]
    /\ UNCHANGED <<scn, Messages, issued, ncalls, pollVars, loopVars, nlines>>

\* Unsubscribe that invokes the cancel and leaves the entry in the registry.
MutUnsubscribeBodyKeepEntry(c) ==
    /\ ~crashed
    /\ cpc[c] = "unsub_cs"
    /\ LET subscriptionID == carg[c].id
           ok == subscriptionID \in DOMAIN subscriptions IN
       /\ IF ~ok
          THEN UNCHANGED <<subscriptions, ctxDone, cancelCalls, unsubscribed>>
          ELSE /\ subscriptions' = subscriptions
               /\ ctxDone' = [ctxDone EXCEPT ![subscriptionID] = TRUE]
               /\ cancelCalls' = [cancelCalls EXCEPT ![subscriptionID] = @ + 1]
               /\ unsubscribed' = unsubscribed \cup {subscriptionID}
       /\ ret' = [ret EXCEPT ![c] = [NoRet EXCEPT !.op = "unsubscribe",
                                                  !.id = subscriptionID, !.found = ok]]
    /\ mu' = 0
    /\ cpc' = [cpc EXCEPT ![c] = "idle"]
    /\ carg' = [carg EXCEPT ![c] = NoArg]
    /\ UNCHANGED <<scn, Messages, issued, ncalls, pollVars, loopVars, nlines, crashed>>

\* The critical section of Unsubscribe and the deferred Unlock: an unknown
\* id returns, a known one is deleted and its cancel is invoked.
UnsubscribeBody(c) ==
    /\ ~crashed
    /\ cpc[c] = "unsub_cs"
    /\ LET subscriptionID == carg[c].id
           ok == subscriptionID \in DOMAIN subscriptions IN
       /\ IF ~ok
          THEN UNCHANGED <<subscriptions, ctxDone, cancelCalls, unsubscribed>>
          ELSE /\ subscriptions' = MapDelete(subscriptions, subscriptionID)
               /\ ctxDone' = [ctxDone EXCEPT ![subscriptionID] = TRUE]
               /\ cancelCalls' = [cancelCalls EXCEPT ![subscriptionID] = @ + 1]
               /\ unsubscribed' = unsubscribed \cup {subscriptionID}
       /\ ret' = [ret EXCEPT ![c] = [NoRet EXCEPT !.op = "unsubscribe",
                                                  !.id = subscriptionID, !.found = ok]]
    /\ mu' = 0
    /\ cpc' = [cpc EXCEPT ![c] = "idle"]
    /\ carg' = [carg EXCEPT ![c] = NoArg]
    /\ UNCHANGED <<scn, Messages, issued, ncalls, pollVars, loopVars, nlines, crashed>>

(* --------------------------- the reconnect loop ------------------------ *)

\* A loop that gives up when an attempt fails.
MutEndAttempt(i, err) ==
    /\ lerr' = [lerr EXCEPT ![i] = err]
    /\ lpc' = [lpc EXCEPT ![i] = IF err = Nil THEN "wait" ELSE "exited"]
    /\ timer' = [timer EXCEPT ![i] = 0]

\* Where an attempt ends: performSubscribeRequest returned err, the loop is
\* at its select with a timer just started.
EndAttempt(i, err) ==
    /\ lerr' = [lerr EXCEPT ![i] = err]
    /\ lpc' = [lpc EXCEPT ![i] = "wait"]
    /\ timer' = [timer EXCEPT ![i] = 0]

\* performSubscribeRequest, up to the scanner: request, options, Do, status.
LoopConnect(i, outcome) ==
    /\ ~crashed
    /\ lpc[i] = "connect"
    /\ outcome \in scn.outcomes
    /\ LET err == OpenStream(ctxDone[i], largs[i].topicURL, largs[i].options, outcome) IN
       IF err # Nil
       THEN EndAttempt(i, err)
       ELSE /\ lpc' = [lpc EXCEPT ![i] = "read"]
            /\ lerr' = [lerr EXCEPT ![i] = Nil]
            /\ UNCHANGED timer
    /\ lreq' = [lreq EXCEPT ![i] = BuildRequest(StreamURL(largs[i].topicURL), largs[i].options)]
    /\ UNCHANGED <<scn, clientVars, callerVars, pollVars, largs, lmsg, lastLine, pending,
                   nlines, crashed>>

\* scanner.Scan() yields a line: decode it, forward a message event.
LoopScan(i, line) ==
    /\ ~crashed
    /\ lpc[i] = "read"
    /\ CanSend(line)
    /\ nlines' = nlines + 1
    /\ lastLine' = [lastLine EXCEPT ![i] = line]
    /\ LET d == toMessage(line, largs[i].topicURL, largs[i].id) IN
       IF d.panic
       THEN /\ crashed' = TRUE
            /\ UNCHANGED <<lpc, lmsg, lerr, timer, pending>>
       ELSE IF d.err # Nil
       THEN /\ EndAttempt(i, d.err)
            /\ UNCHANGED <<lmsg, pending, crashed>>
       ELSE IF d.m.Event = MessageEvent
       THEN /\ lpc' = [lpc EXCEPT ![i] = "push"]
            /\ lmsg' = [lmsg EXCEPT ![i] = d.m]
            /\ pending' = [pending EXCEPT ![i] = Append(@, d.m)]
            /\ UNCHANGED <<lerr, timer, crashed>>
       ELSE UNCHANGED <<lpc, lmsg, lerr, timer, pending, crashed>>
    /\ UNCHANGED <<scn, clientVars, callerVars, pollVars, largs, lreq>>

\* scanner.Scan() yields false: the server closed the stream, the read
\* failed, or the context was canceled.  scanner.Err() is not looked at.
LoopScanEnd(i) ==
    /\ ~crashed
    /\ lpc[i] = "read"
    /\ CanEnd(ctxDone[i])
    /\ EndAttempt(i, Nil)
    /\ UNCHANGED <<scn, clientVars, callerVars, pollVars, largs, lreq, lmsg, lastLine,
                   pending, nlines, crashed>>

\* A send that puts the message at the front of the channel.
MutLoopPushFront(i) ==
    /\ ~crashed
    /\ lpc[i] = "push"
    /\ Len(Messages) < QueueCap
    /\ Messages' = <<lmsg[i]>> \o Messages
    /\ lmsg' = [lmsg EXCEPT ![i] = NilMessage]
    /\ lpc' = [lpc EXCEPT ![i] = "read"]
    /\ UNCHANGED <<scn, subscriptions, mu, ctxDone, cancelCalls, issued, unsubscribed,
                   callerVars, pollVars, largs, lreq, lerr, lastLine, timer, pending,
                   nlines, crashed>>

\* A send on a channel without a capacity.
MutLoopPushUnbounded(i) ==
    /\ ~crashed
    /\ lpc[i] = "push"
    /\ Messages' = Append(Messages, lmsg[i])
    /\ lmsg' = [lmsg EXCEPT ![i] = NilMessage]
    /\ lpc' = [lpc EXCEPT ![i] = "read"]
    /\ UNCHANGED <<scn, subscriptions, mu, ctxDone, cancelCalls, issued, unsubscribed,
                   callerVars, pollVars, largs, lreq, lerr, lastLine, timer, pending,
                   nlines, crashed>>

\* msgChan <- m on the buffered channel: blocks while it is full.
LoopPush(i) ==
    /\ ~crashed
    /\ lpc[i] = "push"
    /\ Len(Messages) < QueueCap
    /\ Messages' = Append(Messages, lmsg[i])
    /\ lmsg' = [lmsg EXCEPT ![i] = NilMessage]
    /\ lpc' = [lpc EXCEPT ![i] = "read"]
    /\ UNCHANGED <<scn, subscriptions, mu, ctxDone, cancelCalls, issued, unsubscribed,
                   callerVars, pollVars, largs, lreq, lerr, lastLine, timer, pending,
                   nlines, crashed>>

\* A loop that starts its next iteration without waiting for the timer.
MutLoopWaitTimeout(i) ==
    /\ ~crashed
    /\ lpc[i] = "wait"
    /\ lpc' = [lpc EXCEPT ![i] = "connect"]
    /\ timer' = [timer EXCEPT ![i] = 0]
    /\ lastLine' = [lastLine EXCEPT ![i] = NoLine]
    /\ UNCHANGED <<scn, clientVars, callerVars, pollVars, largs, lreq, lmsg, lerr,
                   pending, nlines, crashed>>

\* case <-time.After(10 * time.Second): the next iteration
LoopWaitTimeout(i) ==
    /\ ~crashed
    /\ lpc[i] = "wait"
    /\ timer[i] >= RetryDelay
    /\ lpc' = [lpc EXCEPT ![i] = "connect"]
    /\ timer' = [timer EXCEPT ![i] = 0]
    /\ lastLine' = [lastLine EXCEPT ![i] = NoLine]
    /\ UNCHANGED <<scn, clientVars, callerVars, pollVars, largs, lreq, lmsg, lerr,
                   pending, nlines, crashed>>

\* case <-ctx.Done(): return
LoopWaitCancel(i) ==
    /\ ~crashed
    /\ lpc[i] = "wait"
    /\ ctxDone[i]
    /\ lpc' = [lpc EXCEPT ![i] = "exited"]
    /\ timer' = [timer EXCEPT ![i] = 0]
    /\ UNCHANGED <<scn, clientVars, callerVars, pollVars, largs, lreq, lmsg, lerr, lastLine,
                   pending, nlines, crashed>>

\* Time passes: every running timer advances by TickSeconds.
Tick ==
    /\ ~crashed
    /\ \E i \in IDs : lpc[i] = "wait" /\ timer[i] < RetryDelay
    /\ timer' = [i \in IDs |->
                    IF lpc[i] = "wait" /\ timer[i] < RetryDelay
                    THEN timer[i] + TickSeconds ELSE timer[i]]
    /\ UNCHANGED <<scn, clientVars, callerVars, pollVars, lpc, largs, lreq, lmsg, lerr, lastLine,
                   pending, nlines, crashed>>

\* The application takes a message off c.Messages.
Receive ==
    /\ ~crashed
    /\ Messages # <<>>
    /\ Len(Messages) > scn.backlog
    /\ Messages' = Tail(Messages)
    /\ pending' = [pending EXCEPT ![Head(Messages).SubscriptionID] = Tail(@)]
    /\ UNCHANGED <<scn, subscriptions, mu, ctxDone, cancelCalls, issued, unsubscribed,
                   callerVars, pollVars, lpc, largs, lreq, lmsg, lerr, lastLine, timer,
                   nlines, crashed>>

(* -------------------------------- Poll --------------------------------- *)

\* Poll up to the range over msgChan: the topic is resolved (an error
\* returns nil, err), WithPoll is appended, the helper goroutine is started.
PollCall(c, topic, options) ==
    /\ CanCall(c, "poll")
    /\ topic \in scn.topics
    /\ options \in scn.options
    /\ ncalls' = ncalls + 1
    /\ LET e == expandTopicURL(topic) IN
       IF e.err # Nil
       THEN /\ ret' = [ret EXCEPT ![c] = [NoRet EXCEPT !.op = "poll", !.err = e.err,
                                                  !.topic = topic, !.options = options]]
            /\ UNCHANGED <<cpc, carg, hpc>>
       ELSE /\ cpc' = [cpc EXCEPT ![c] = "poll_range"]
            /\ carg' = [carg EXCEPT ![c] = [NoArg EXCEPT !.topicURL = e.url,
                                                        !.options = Append(options, WithPoll),
                                                        !.topic = topic, !.given = options]]
            /\ hpc' = [hpc EXCEPT ![c] = "connect"]
            /\ ret' = [ret EXCEPT ![c] = NoRet]
    /\ pmsgs' = [pmsgs EXCEPT ![c] = <<>>]
    /\ pscan' = [pscan EXCEPT ![c] = <<>>]
    /\ pconn' = [pconn EXCEPT ![c] = "none"]
    /\ preq' = [preq EXCEPT ![c] = NoReq]
    /\ UNCHANGED <<scn, clientVars, hmsg, herr, loopVars, nlines, crashed>>

\* The helper's performSubscribeRequest returned err: close(msgChan) is next.
HelperReturn(c, err) ==
    /\ herr' = [herr EXCEPT ![c] = err]
    /\ hpc' = [hpc EXCEPT ![c] = "close"]

\* performSubscribeRequest in the helper, up to the scanner.  The context
\* is context.Background(): never canceled.
HelperConnect(c, outcome) ==
    /\ ~crashed
    /\ hpc[c] = "connect"
    /\ outcome \in scn.outcomes
    /\ LET err == OpenStream(FALSE, carg[c].topicURL, carg[c].options, outcome) IN
       IF err # Nil
       THEN /\ HelperReturn(c, err)
            /\ pconn' = [pconn EXCEPT ![c] = "failed"]
       ELSE /\ hpc' = [hpc EXCEPT ![c] = "read"]
            /\ pconn' = [pconn EXCEPT ![c] = "open"]
            /\ UNCHANGED herr
    /\ preq' = [preq EXCEPT ![c] = BuildRequest(StreamURL(carg[c].topicURL), carg[c].options)]
    /\ UNCHANGED <<scn, clientVars, callerVars, hmsg, pmsgs, pscan, loopVars, nlines, crashed>>

\* A scanner loop that forwards every event it decodes, whatever its kind.
MutHelperScan(c, line) ==
    /\ ~crashed
    /\ hpc[c] = "read"
    /\ CanSend(line)
    /\ nlines' = nlines + 1
    /\ pscan' = [pscan EXCEPT ![c] = Append(@, line)]
    /\ LET d == toMessage(line, carg[c].topicURL, 0) IN
       IF d.panic
       THEN /\ crashed' = TRUE
            /\ UNCHANGED <<hpc, hmsg, herr>>
       ELSE IF d.err # Nil
       THEN /\ HelperReturn(c, d.err)
            /\ UNCHANGED <<hmsg, crashed>>
       ELSE /\ hpc' = [hpc EXCEPT ![c] = "push"]
            /\ hmsg' = [hmsg EXCEPT ![c] = d.m]
            /\ UNCHANGED <<herr, crashed>>
    /\ UNCHANGED <<scn, clientVars, callerVars, pmsgs, pconn, preq, loopVars>>

\* scanner.Scan() yields a line in the helper.
HelperScan(c, line) ==
    /\ ~crashed
    /\ hpc[c] = "read"
    /\ CanSend(line)
    /\ nlines' = nlines + 1
    /\ pscan' = [pscan EXCEPT ![c] = Append(@, line)]
    /\ LET d == toMessage(line, carg[c].topicURL, 0) IN
       IF d.panic
       THEN /\ crashed' = TRUE
            /\ UNCHANGED <<hpc, hmsg, herr>>
       ELSE IF d.err # Nil
       THEN /\ HelperReturn(c, d.err)
            /\ UNCHANGED <<hmsg, crashed>>
       ELSE IF d.m.Event = MessageEvent
       THEN /\ hpc' = [hpc EXCEPT ![c] = "push"]
            /\ hmsg' = [hmsg EXCEPT ![c] = d.m]
            /\ UNCHANGED <<herr, crashed>>
       ELSE UNCHANGED <<hpc, hmsg, herr, crashed>>
    /\ UNCHANGED <<scn, clientVars, callerVars, pmsgs, pconn, preq, loopVars>>

\* scanner.Scan() yields false in the helper: return nil.
HelperScanEnd(c) ==
    /\ ~crashed
    /\ hpc[c] = "read"
    /\ CanEnd(FALSE)
    /\ HelperReturn(c, Nil)
    /\ UNCHANGED <<scn, clientVars, callerVars, hmsg, pmsgs, pscan, pconn, preq, loopVars, nlines, crashed>>

\* A range loop that puts each message at the front of the slice.
MutHelperPush(c) ==
    /\ ~crashed
    /\ hpc[c] = "push"
    /\ cpc[c] = "poll_range"
    /\ pmsgs' = [pmsgs EXCEPT ![c] = <<hmsg[c]>> \o @]
    /\ hmsg' = [hmsg EXCEPT ![c] = NilMessage]
    /\ hpc' = [hpc EXCEPT ![c] = "read"]
    /\ UNCHANGED <<scn, clientVars, callerVars, herr, pscan, pconn, preq, loopVars, nlines, crashed>>

\* A Poll whose helper sends on the Client's channel c.Messages.
MutHelperPushShared(c) ==
    /\ ~crashed
    /\ hpc[c] = "push"
    /\ cpc[c] = "poll_range"
    /\ Len(Messages) < QueueCap
    /\ Messages' = Append(Messages, hmsg[c])
    /\ hmsg' = [hmsg EXCEPT ![c] = NilMessage]
    /\ hpc' = [hpc EXCEPT ![c] = "read"]
    /\ UNCHANGED <<scn, subscriptions, mu, ctxDone, cancelCalls, issued, unsubscribed,
                   callerVars, herr, pmsgs, pscan, pconn, preq, loopVars, nlines, crashed>>

\* msgChan <- m on the unbuffered channel meets the caller's range:
\* messages = append(messages, m).
HelperPush(c) ==
    /\ ~crashed
    /\ hpc[c] = "push"
    /\ cpc[c] = "poll_range"
    /\ pmsgs' = [pmsgs EXCEPT ![c] = Append(@, hmsg[c])]
    /\ hmsg' = [hmsg EXCEPT ![c] = NilMessage]
    /\ hpc' = [hpc EXCEPT ![c] = "read"]
    /\ UNCHANGED <<scn, clientVars, callerVars, herr, pscan, pconn, preq, loopVars, nlines, crashed>>

\* A helper that sends on errChan without closing msgChan first: the caller
\* is still in its range.
MutHelperClose(c) ==
    /\ ~crashed
    /\ hpc[c] = "close"
    /\ cpc[c] = "poll_range"
    /\ hpc' = [hpc EXCEPT ![c] = "senderr"]
    /\ cpc' = cpc
    /\ UNCHANGED <<scn, clientVars, carg, ret, ncalls, hmsg, herr, pmsgs, pscan, pconn, preq, loopVars,
                   nlines, crashed>>

\* close(msgChan): the caller's range ends, it waits on errChan.
HelperClose(c) ==
    /\ ~crashed
    /\ hpc[c] = "close"
    /\ cpc[c] = "poll_range"
    /\ hpc' = [hpc EXCEPT ![c] = "senderr"]
    /\ cpc' = [cpc EXCEPT ![c] = "poll_err"]
    /\ UNCHANGED <<scn, clientVars, carg, ret, ncalls, hmsg, herr, pmsgs, pscan, pconn, preq, loopVars,
                   nlines, crashed>>

\* A Poll that returns no list when the stream ended with an error.
MutHelperSendErr(c) ==
    /\ ~crashed
    /\ hpc[c] = "senderr"
    /\ cpc[c] = "poll_err"
    /\ ret' = [ret EXCEPT ![c] = [NoRet EXCEPT !.op = "poll", !.err = herr[c],
                                              !.msgs = IF herr[c] = Nil THEN pmsgs[c] ELSE <<>>,
                                              !.nilmsgs = herr[c] # Nil,
                                              !.topic = carg[c].topic,
                                              !.options = carg[c].given]]
    /\ hpc' = [hpc EXCEPT ![c] = "none"]
    /\ herr' = [herr EXCEPT ![c] = Nil]
    /\ pmsgs' = [pmsgs EXCEPT ![c] = <<>>]
    /\ cpc' = [cpc EXCEPT ![c] = "idle"]
    /\ carg' = [carg EXCEPT ![c] = NoArg]
    /\ UNCHANGED <<scn, clientVars, ncalls, hmsg, pscan, pconn, preq, loopVars, nlines, crashed>>

\* errChan <- err meets return messages, <-errChan.
HelperSendErr(c) ==
    /\ ~crashed
    /\ hpc[c] = "senderr"
    /\ cpc[c] = "poll_err"
    /\ ret' = [ret EXCEPT ![c] = [NoRet EXCEPT !.op = "poll", !.err = herr[c],
                                              !.msgs = pmsgs[c], !.nilmsgs = FALSE,
                                              !.topic = carg[c].topic,
                                              !.options = carg[c].given]]
    /\ hpc' = [hpc EXCEPT ![c] = "none"]
    /\ herr' = [herr EXCEPT ![c] = Nil]
    /\ pmsgs' = [pmsgs EXCEPT ![c] = <<>>]
    /\ cpc' = [cpc EXCEPT ![c] = "idle"]
    /\ carg' = [carg EXCEPT ![c] = NoArg]
    /\ UNCHANGED <<scn, clientVars, ncalls, hmsg, pscan, pconn, preq, loopVars, nlines, crashed>>

(* ------------------------------- Publish ------------------------------- *)

\* What PublishReader returns, or that it panics.
PublishResult(topic, options, outcome) ==
    LET e == expandTopicURL(topic)
        o == ApplyOptions(options, <<>>)
        b == LimitReader(outcome.body)
        d == toMessage(outcome.line, e.url, 0)
        fail(err) == [m |-> NilMessage, err |-> err, panic |-> FALSE]
    IN  IF e.err # Nil THEN fail(e.err)
        ELSE IF NewRequest(e.url) # Nil THEN fail(NewRequest(e.url))
        ELSE IF o.err # Nil THEN fail(o.err)
        ELSE IF outcome.kind = "transport" THEN fail(Error("transport", <<>>))
        ELSE IF outcome.status # StatusOK THEN fail(Error("status", TrimSpace(b)))
        ELSE d

\* Publish and PublishReader: one request, no shared state.
Publish(c, topic, options, outcome) ==
    /\ CanCall(c, "publish")
    /\ topic \in scn.topics
    /\ options \in scn.options
    /\ outcome \in scn.outcomes
    /\ ncalls' = ncalls + 1
    /\ LET r == PublishResult(topic, options, outcome) IN
       IF r.panic
       THEN /\ crashed' = TRUE
            /\ ret' = [ret EXCEPT ![c] = NoRet]
       ELSE /\ ret' = [ret EXCEPT ![c] = [NoRet EXCEPT !.op = "publish", !.err = r.err, !.m = r.m,
                                                  !.topic = topic, !.options = options,
                                                  !.outcome = outcome]]
            /\ UNCHANGED crashed
    /\ preq' = [preq EXCEPT ![c] = IF expandTopicURL(topic).err # Nil THEN NoReq
                                   ELSE BuildRequest(expandTopicURL(topic).url, options)]
    /\ UNCHANGED <<scn, clientVars, cpc, carg, hpc, hmsg, herr, pmsgs, pscan, pconn, loopVars,
                   nlines>>

(* ----------------------------- specification --------------------------- *)

AllOutcomes == {ROk, RTransport, RQuota, RExceeded, RBig}
AllLines == {LOpen, LKeepalive, LMsg1, LMsg2, LBad, LEmpty, LValue, LNull}

Next ==
    \/ \E c \in Callers, topic \in scn.topics, options \in scn.options :
          SubscribeCall(c, topic, options)
    \/ \E c \in Callers : SubscribeBody(c)
    \/ \E c \in Callers, i \in IDs : UnsubscribeCall(c, i)
    \/ \E c \in Callers : UnsubscribeBody(c)
    \/ \E i \in IDs, outcome \in AllOutcomes : LoopConnect(i, outcome)
    \/ \E i \in IDs, line \in AllLines : LoopScan(i, line)
    \/ \E i \in IDs : LoopScanEnd(i)
    \/ \E i \in IDs : LoopPush(i)
    \/ \E i \in IDs : LoopWaitTimeout(i)
    \/ \E i \in IDs : LoopWaitCancel(i)
    \/ Tick
    \/ Receive
    \/ \E c \in Callers, topic \in scn.topics, options \in scn.options :
          PollCall(c, topic, options)
    \/ \E c \in Callers, outcome \in AllOutcomes : HelperConnect(c, outcome)
    \/ \E c \in Callers, line \in AllLines : HelperScan(c, line)
    \/ \E c \in Callers : HelperScanEnd(c)
    \/ \E c \in Callers : HelperPush(c)
    \/ \E c \in Callers : HelperClose(c)
    \/ \E c \in Callers : HelperSendErr(c)
    \/ \E c \in Callers, topic \in scn.topics, options \in scn.options,
          outcome \in AllOutcomes : Publish(c, topic, options, outcome)

Spec == Init /\ [][Next]_vars

\* An almost full channel.
\* The state of a Client on which two Subscribe calls have returned ids 1
\* and 2, both loops have opened their streams, and subscription 1 has
\* received QueueCap - 1 messages none of which the application has taken.
InitFull ==
    LET url == expandTopicURL(TopicGood).url
        subs == {1, 2}
        arg(i) == [NoArg EXCEPT !.topicURL = url, !.id = i, !.topic = TopicGood]
        m == toMessage(LMsg1, url, 1).m
    IN  /\ scn = ScnFull
        /\ Messages = [k \in 1..(QueueCap - 1) |-> m]
        /\ subscriptions = [i \in subs |-> [ID |-> i, topicURL |-> url]]
        /\ mu = 0
        /\ ctxDone = [i \in IDs |-> FALSE]
        /\ cancelCalls = [i \in IDs |-> 0]
        /\ issued = subs
        /\ cpc = [c \in Callers |-> "idle"]
        /\ carg = [c \in Callers |-> NoArg]
        /\ ret = [c \in Callers |-> NoRet]
        /\ ncalls = 0
        /\ hpc = [c \in Callers |-> "none"]
        /\ hmsg = [c \in Callers |-> NilMessage]
        /\ herr = [c \in Callers |-> Nil]
        /\ pmsgs = [c \in Callers |-> <<>>]
        /\ pscan = [c \in Callers |-> <<>>]
        /\ pconn = [c \in Callers |-> "none"]
        /\ preq = [c \in Callers |-> NoReq]
        /\ lpc = [i \in IDs |-> IF i \in subs THEN "read" ELSE "none"]
        /\ largs = [i \in IDs |-> IF i \in subs THEN arg(i) ELSE NoArg]
        /\ lmsg = [i \in IDs |-> NilMessage]
        /\ lerr = [i \in IDs |-> Nil]
        /\ lastLine = [i \in IDs |-> IF i = 1 THEN LMsg1 ELSE NoLine]
        /\ timer = [i \in IDs |-> 0]
        /\ pending = [i \in IDs |-> IF i = 1 THEN [k \in 1..(QueueCap - 1) |-> m] ELSE <<>>]
        /\ lreq = [i \in IDs |-> NoReq]
        /\ unsubscribed = {}
        /\ nlines = 0
        /\ crashed = FALSE

\* What the Client does from there: the loops, the application taking
\* messages, and Unsubscribe.
NextFull ==
    \/ \E c \in Callers, i \in IDs : UnsubscribeCall(c, i)
    \/ \E c \in Callers : UnsubscribeBody(c)
    \/ \E i \in IDs, outcome \in AllOutcomes : LoopConnect(i, outcome)
    \/ \E i \in IDs, line \in AllLines : LoopScan(i, line)
    \/ \E i \in IDs : LoopScanEnd(i)
    \/ \E i \in IDs : LoopPush(i)
    \/ \E i \in IDs : LoopWaitTimeout(i)
    \/ \E i \in IDs : LoopWaitCancel(i)
    \/ Tick
    \/ Receive

SpecFull == InitFull /\ [][NextFull]_vars

\* What the Go scheduler gives Poll's two goroutines: a send on an unbuffered
\* channel whose receiver is at its receive, a close, and a receive whose
\* sender is at its send, are taken.  Nothing makes a server answer, send a
\* line or end a stream.
PollFairness ==
    \A c \in Callers :
        /\ WF_vars(HelperPush(c))
        /\ WF_vars(HelperClose(c))
        /\ WF_vars(HelperSendErr(c))

\* A Client on which only Poll and Publish are called.
InitPoll == scn = ScnPoll /\ New

NextPoll ==
    \/ \E c \in Callers, topic \in scn.topics, options \in scn.options :
          PollCall(c, topic, options)
    \/ \E c \in Callers, outcome \in AllOutcomes : HelperConnect(c, outcome)
    \/ \E c \in Callers, line \in AllLines : HelperScan(c, line)
    \/ \E c \in Callers : HelperScanEnd(c)
    \/ \E c \in Callers : HelperPush(c)
    \/ \E c \in Callers : HelperClose(c)
    \/ \E c \in Callers : HelperSendErr(c)
    \/ \E c \in Callers, topic \in scn.topics, options \in scn.options,
          outcome \in AllOutcomes : Publish(c, topic, options, outcome)

SpecPollFair == InitPoll /\ [][NextPoll]_vars /\ PollFairness

\* What the Go scheduler gives a loop's goroutine: a step it can take and that
\* stays possible is taken (the request, the end of a stream whose read
\* failed, a send on a channel with room), and a select whose ctx.Done() case
\* is ready again and again, each time with a timer just started, takes it.
\* Nothing makes the application receive, and nothing makes a server send.
LoopFairness ==
    \A i \in IDs :
        /\ WF_vars(\E outcome \in AllOutcomes : LoopConnect(i, outcome))
        /\ WF_vars(LoopScanEnd(i))
        /\ WF_vars(LoopPush(i))
        /\ SF_vars(LoopWaitCancel(i))

SpecFullFair == InitFull /\ [][NextFull]_vars /\ LoopFairness

(* -------------------------------- claims ------------------------------- *)

\* The step in which caller c's Unsubscribe runs its critical section and returns.
UnsubscribeReturns(c) == cpc[c] = "unsub_cs" /\ cpc'[c] = "idle"
\* The step in which caller c's Subscribe runs its critical section and returns.
SubscribeReturns(c) == cpc[c] = "sub_cs" /\ cpc'[c] = "idle"

\* The messages of subscription i in the channel, oldest first.
Queued(i) == SelectSeq(Messages, LAMBDA m : m.SubscriptionID = i)

\* C1: canceling one subscription never affects another. A registered
\* subscription's context is not canceled and its cancel was never invoked,
\* whatever was unsubscribed around it; its loop has not exited; a message it
\* is sending enters the channel whenever there is room; and the step of
\* Unsubscribe(a) changes nothing of any b # a: not its registry entry, its
\* context, its loop's position, its message in flight, nor the channel.
C1_UnsubscribeLeavesOthers ==
    /\ [](\A b \in IDs : b \in DOMAIN subscriptions =>
            /\ ~ctxDone[b]
            /\ cancelCalls[b] = 0
            /\ lpc[b] \in {"connect", "read", "push", "wait"}
            /\ (lpc[b] = "push" /\ Len(Messages) < QueueCap /\ ~crashed
                  => ENABLED LoopPush(b)))
    /\ [][\A c \in Callers : UnsubscribeReturns(c) =>
            /\ Messages' = Messages
            /\ \A b \in IDs \ {carg[c].id} :
                /\ (b \in DOMAIN subscriptions) = (b \in DOMAIN subscriptions')
                /\ b \in DOMAIN subscriptions => subscriptions'[b] = subscriptions[b]
                /\ ctxDone'[b] = ctxDone[b]
                /\ cancelCalls'[b] = cancelCalls[b]
                /\ lpc'[b] = lpc[b]
                /\ lmsg'[b] = lmsg[b]
                /\ pending'[b] = pending[b]]_vars

\* a was unsubscribed and its loop has exited; b is registered and is sending
\* a message.
C1_Witness ==
    \E a \in unsubscribed, b \in DOMAIN subscriptions :
        /\ a # b
        /\ lpc[a] = "exited"
        /\ lpc[b] = "push"
        /\ Len(Messages) < QueueCap

\* C2: subscription ids are unique within a Client's lifetime. The id a
\* Subscribe returns was never generated before and is not in the registry,
\* the step adds exactly that entry and leaves every other entry and every
\* other context as it was; so two Subscribe calls never return the same id.
C2_IdsUnique ==
    /\ [](\A c, d \in Callers :
            c # d /\ ret[c].op = "subscribe" /\ ret[d].op = "subscribe"
                  /\ ret[c].err = Nil /\ ret[d].err = Nil
            => ret[c].id # ret[d].id)
    /\ [][\A c \in Callers : SubscribeReturns(c) =>
            /\ ret'[c].err = Nil
            /\ ret'[c].id \in IDs
            /\ ret'[c].id \notin issued
            /\ ret'[c].id \notin DOMAIN subscriptions
            /\ DOMAIN subscriptions' = DOMAIN subscriptions \cup {ret'[c].id}
            /\ \A b \in DOMAIN subscriptions : subscriptions'[b] = subscriptions[b]
            /\ \A b \in IDs \ {ret'[c].id} :
                  ctxDone'[b] = ctxDone[b] /\ lpc'[b] = lpc[b] /\ largs'[b] = largs[b]]_vars

\* Both callers have subscribed, the second while the first held the lock.
C2_Witness ==
    /\ ret[1].op = "subscribe" /\ ret[1].err = Nil /\ ret[1].id \in IDs
    /\ ret[2].op = "subscribe" /\ ret[2].err = Nil /\ ret[2].id \in IDs
    /\ Cardinality(DOMAIN subscriptions) = 2

\* C3: Unsubscribe with an id that is not in the registry is a no-op. The
\* call returns, the process is alive, and the registry, every context,
\* every cancel count, every loop and the channel are as they were.
C3_UnknownIdNoOp ==
    [][\A c \in Callers :
          UnsubscribeReturns(c) /\ carg[c].id \notin DOMAIN subscriptions =>
            /\ ~crashed'
            /\ ret'[c].op = "unsubscribe" /\ ret'[c].err = Nil /\ ~ret'[c].found
            /\ mu' = 0
            /\ UNCHANGED <<subscriptions, ctxDone, cancelCalls, unsubscribed, Messages,
                           loopVars>>]_vars

\* An Unsubscribe of an id unsubscribed before has returned, and another
\* subscription is registered.
C3_Witness ==
    \E c \in Callers :
        /\ ret[c].op = "unsubscribe"
        /\ ~ret[c].found
        /\ ret[c].id \in unsubscribed
        /\ cpc[c] = "idle"

\* The arguments of a returned call are invalid: the topic does not resolve,
\* an option fails.
BadTopic(r) == expandTopicURL(r.topic).err # Nil
BadOption(r) == ApplyOptions(r.options, <<>>).err # Nil

\* C4 as stated: for Publish, Poll and Subscribe alike, a malformed topic or
\* a failing option makes the call itself return the error, and no attempt
\* of a Reconnect Loop applies a failing option.
C4_Original ==
    /\ \A c \in Callers :
          ret[c].op \in {"publish", "poll", "subscribe"} /\ (BadTopic(ret[c]) \/ BadOption(ret[c]))
          => ret[c].err.kind \in {"invalid topic name", "option"}
    /\ \A i \in IDs : lerr[i].kind # "option"

\* C4, amended: a malformed topic is returned by the call itself, for
\* Publish, Poll and Subscribe alike, and starts no loop; a failing option is
\* returned by the call itself for Publish and Poll only.  Subscribe with a
\* topic that resolves returns an id and no error whatever its options; its
\* loop applies them in every attempt, so with a failing option no attempt
\* opens a stream, each ends with the option's error and the next one is
\* scheduled like after any other failure.
C4_ValidationErrors ==
    /\ [](\A c \in Callers :
            /\ ret[c].op \in {"publish", "poll", "subscribe"} /\ BadTopic(ret[c])
               => /\ ret[c].err = expandTopicURL(ret[c].topic).err
                  /\ ret[c].id = 0 /\ ret[c].nilmsgs /\ ret[c].m = NilMessage
            /\ ret[c].op \in {"publish", "poll"} /\ ~BadTopic(ret[c]) /\ BadOption(ret[c])
               => /\ ret[c].err = ApplyOptions(ret[c].options, <<>>).err
                  /\ ret[c].msgs = <<>> /\ ret[c].m = NilMessage
            /\ ret[c].op = "subscribe" /\ ~BadTopic(ret[c])
               => /\ ret[c].err = Nil
                  /\ ret[c].id \in issued
                  /\ largs[ret[c].id].topic = ret[c].topic
                  /\ largs[ret[c].id].options = ret[c].options)
    /\ [](\A i \in issued :
            /\ expandTopicURL(largs[i].topic).err = Nil
            /\ BadOption(largs[i])
               => /\ lpc[i] \in {"connect", "wait", "exited"}
                  /\ lerr[i] \in {Nil, ApplyOptions(largs[i].options, <<>>).err}
                  /\ pending[i] = <<>>)
    /\ [][\A i \in issued :
            BadOption(largs[i]) /\ lpc[i] = "connect" /\ lpc'[i] # "connect"
            => /\ lpc'[i] = "wait"
               /\ timer'[i] = 0
               /\ lerr'[i] = ApplyOptions(largs[i].options, <<>>).err]_vars

\* A Subscribe with a failing option has returned an id and no error, its
\* loop's attempt has failed with the option's error, the retry delay has
\* passed and the next attempt is about to apply the option again.
C4_Witness ==
    \E c \in Callers :
        /\ ret[c].op = "subscribe" /\ ret[c].err = Nil /\ BadOption(ret[c])
        /\ ret[c].id \in DOMAIN subscriptions
        /\ lpc[ret[c].id] = "connect"
        /\ lerr[ret[c].id].kind = "option"

\* What the decoder makes of a line that was read.
Decoded(l) == toMessage(l, <<>>, 0)
\* A line that does not decode; a line that decodes to a message event.
IsBadLine(l) == l # NoLine /\ ~Decoded(l).panic /\ Decoded(l).err # Nil
IsMessageLine(l) ==
    l # NoLine /\ ~Decoded(l).panic /\ Decoded(l).err = Nil /\ Decoded(l).m.Event = MessageEvent
\* The messages of the message events among lines, in the order of the lines.
MessagesOf(lines, topicURL, subscriptionID) ==
    LET sel == SelectSeq(lines, IsMessageLine)
    IN  [k \in 1..Len(sel) |-> toMessage(sel[k], topicURL, subscriptionID).m]

\* C5: a malformed line aborts the attempt and the next attempt waits for the
\* retry delay.  The step that reads a malformed line ends the attempt with
\* the decode error and starts the timer at zero, forwarding nothing; while
\* that line is the last one read the loop is waiting or has exited, no
\* further line is read and no message of the subscription is added; and the
\* loop leaves its wait for the next attempt only when the timer has reached
\* the retry delay.
C5_MalformedLineAborts ==
    /\ [](\A i \in IDs : IsBadLine(lastLine[i]) =>
            /\ lpc[i] \in {"wait", "exited"}
            /\ lerr[i] = Decoded(lastLine[i]).err)
    /\ [][\A i \in IDs :
            /\ lpc[i] = "read" /\ IsBadLine(lastLine'[i])
               => /\ lpc'[i] = "wait" /\ timer'[i] = 0
                  /\ lmsg'[i] = lmsg[i] /\ pending'[i] = pending[i] /\ Messages' = Messages
            /\ IsBadLine(lastLine[i])
               => /\ lastLine'[i] \in {lastLine[i], NoLine}
                  /\ lmsg'[i] = lmsg[i]
                  /\ Len(pending'[i]) <= Len(pending[i])
                  /\ Len(SelectSeq(Messages', LAMBDA m : m.SubscriptionID = i))
                        <= Len(Queued(i))
            /\ lpc[i] = "wait" /\ lpc'[i] # "wait"
               => \/ lpc'[i] = "connect" /\ timer[i] >= RetryDelay
                  \/ lpc'[i] = "exited" /\ ctxDone[i]
            /\ lpc[i] = "wait" /\ lpc'[i] = "wait"
               => timer'[i] \in {timer[i], timer[i] + TickSeconds}]_vars

\* A live subscription has read a malformed line, its loop has waited for the
\* retry delay and is about to start the next attempt.
C5_Witness ==
    \E i \in DOMAIN subscriptions :
        /\ ~ctxDone[i]
        /\ IsBadLine(lastLine[i])
        /\ lpc[i] = "wait"
        /\ timer[i] >= RetryDelay
        /\ ENABLED LoopWaitTimeout(i)

\* C6: the stream engine forwards exactly the message events, in stream
\* order.  For Poll's stream: what the sink has received, with the message
\* being sent, is the messages of the message events among the lines read so
\* far, in their order, and so is what Poll returns.  For a loop's stream: a
\* message is sent only for a line that is a message event, it is that
\* line's message, and a line that is no message event sends nothing.
C6_ForwardsMessageEvents ==
    /\ [](\A c \in Callers :
            /\ cpc[c] \in {"poll_range", "poll_err"}
               => pmsgs[c] \o (IF hpc[c] = "push" THEN <<hmsg[c]>> ELSE <<>>)
                  = MessagesOf(pscan[c], carg[c].topicURL, 0)
            /\ ret[c].op = "poll" /\ ~ret[c].nilmsgs
               => ret[c].msgs = MessagesOf(pscan[c], expandTopicURL(ret[c].topic).url, 0))
    /\ [](\A i \in IDs : lpc[i] = "push" =>
            /\ IsMessageLine(lastLine[i])
            /\ lmsg[i] = toMessage(lastLine[i], largs[i].topicURL, i).m)
    /\ [][\A i \in IDs :
            /\ lpc[i] = "read" /\ lpc'[i] = "push"
               => pending'[i] = Append(pending[i], lmsg'[i])
            /\ lpc[i] = "read" /\ lastLine'[i] # lastLine[i]
               => (lpc'[i] = "push") = IsMessageLine(lastLine'[i])]_vars

\* The lines open, keepalive, message have been read and Poll has returned
\* exactly one Message, "hi" with id "1".
C6_Witness ==
    \E c \in Callers :
        /\ ret[c].op = "poll"
        /\ pscan[c] = <<LOpen, LKeepalive, LMsg1>>
        /\ Len(ret[c].msgs) = 1
        /\ ret[c].msgs[1].Message = "hi"
        /\ ret[c].msgs[1].ID = "1"

\* The stream of a returned Poll was opened and every line read decoded.
PollStreamClosed(c) ==
    /\ ret[c].op = "poll"
    /\ pconn[c] = "open"
    /\ \A k \in 1..Len(pscan[c]) : ~IsBadLine(pscan[c][k])

\* C7: a Poll whose stream opened and closed after N message events, with
\* other events among them, returns a nil error and exactly the N messages,
\* in arrival order.
C7_PollReturnsAll ==
    \A c \in Callers : PollStreamClosed(c) =>
        /\ ret[c].err = Nil
        /\ ~ret[c].nilmsgs
        /\ Len(ret[c].msgs) = Len(SelectSeq(pscan[c], IsMessageLine))
        /\ ret[c].msgs = MessagesOf(pscan[c], expandTopicURL(ret[c].topic).url, 0)

\* A Poll has returned two messages in the order of their lines, with a
\* keepalive between them, and no error.
C7_Witness ==
    \E c \in Callers :
        /\ PollStreamClosed(c)
        /\ pscan[c] = <<LMsg1, LKeepalive, LMsg2>>
        /\ Len(ret[c].msgs) = 2
        /\ ret[c].msgs[1].ID = "1" /\ ret[c].msgs[2].ID = "2"
        /\ ret[c].err = Nil

C9_PerSubscriptionOrder ==
    \A i \in IDs :
        Queued(i) \o (IF lpc[i] = "push" THEN <<lmsg[i]>> ELSE <<>>) = pending[i]

\* Two messages of one subscription are in the channel in the order
\* received, with a message of another subscription between them.
C9_Witness ==
    \E a, b \in DOMAIN subscriptions :
        /\ a # b
        /\ Len(Messages) = 3
        /\ Messages[1].SubscriptionID = a /\ Messages[1].ID = "1"
        /\ Messages[2].SubscriptionID = b
        /\ Messages[3].SubscriptionID = a /\ Messages[3].ID = "2"
        /\ pending[a] = <<Messages[1], Messages[3]>>

\* C10: the channel never holds more than QueueCap messages, and a full
\* channel stalls every subscription that is sending.  While the channel is
\* full no send is enabled; a step taken then leaves every sending loop
\* sending the same message, and the channel changes only by the application
\* taking its oldest entry; once there is room, every sending loop's send is
\* enabled.
C10_QueueBounded ==
    /\ [](Len(Messages) <= QueueCap)
    /\ [](\A i \in IDs : lpc[i] = "push" /\ ~crashed =>
            (ENABLED LoopPush(i)) = (Len(Messages) < QueueCap))
    /\ [][Len(Messages) = QueueCap =>
            /\ Messages' = Messages \/ Messages' = Tail(Messages)
            /\ \A i \in IDs : lpc[i] = "push" =>
                  lpc'[i] = "push" /\ lmsg'[i] = lmsg[i]]_vars

\* The channel holds QueueCap messages and every subscription's loop is
\* blocked sending one more.
C10_Witness ==
    /\ Len(Messages) = QueueCap
    /\ Cardinality(DOMAIN subscriptions) >= 2
    /\ \A i \in DOMAIN subscriptions : lpc[i] = "push"

\* The position of the first option of a list that fails, 0 when none does.
FirstFailure(options) ==
    IF \E k \in 1..Len(options) : OptionFails(options[k])
    THEN CHOOSE k \in 1..Len(options) :
            OptionFails(options[k]) /\ \A j \in 1..(k - 1) : ~OptionFails(options[j])
    ELSE 0
\* The request and the error the options must give: every option applied and
\* the request sent, or the options before the first failing one applied,
\* the request not sent and that option's error.
RequestOf(options) ==
    LET k == FirstFailure(options)
    IN  IF k = 0 THEN [applied |-> options, sent |-> TRUE]
        ELSE [applied |-> SubSeq(options, 1, k - 1), sent |-> FALSE]
OptionError(options) ==
    LET k == FirstFailure(options)
    IN  IF k = 0 THEN Nil ELSE Error("option", <<options[k]>>)

\* C11: options are applied in the order supplied and the first that fails
\* aborts with its error, before the request is sent and without applying a
\* later option.  For Publish, for Poll (whose list ends with the poll
\* option) and for every attempt of a loop, the request built has exactly
\* the options before the first failing one, in order; when one fails the
\* request was not sent, the call or the attempt ended with that option's
\* error, and nothing was read.
C11_OptionsInOrder ==
    /\ [](\A c \in Callers :
            /\ ret[c].op = "publish" /\ ~BadTopic(ret[c]) /\ ret[c].err.kind # "parse"
               => /\ preq[c] = RequestOf(ret[c].options)
                  /\ FirstFailure(ret[c].options) # 0
                     => ret[c].err = OptionError(ret[c].options) /\ ret[c].m = NilMessage
            /\ ret[c].op = "poll" /\ ~BadTopic(ret[c])
               => /\ preq[c] = RequestOf(Append(ret[c].options, WithPoll))
                  /\ FirstFailure(ret[c].options) # 0
                     => /\ ret[c].err = OptionError(ret[c].options)
                        /\ ret[c].msgs = <<>> /\ pscan[c] = <<>>
            /\ cpc[c] \in {"poll_range", "poll_err"} /\ hpc[c] # "connect"
               => preq[c] = RequestOf(carg[c].options))
    /\ [](\A i \in issued :
            /\ lreq[i] \in {NoReq, RequestOf(largs[i].options)}
            /\ lpc[i] # "connect" => lreq[i] = RequestOf(largs[i].options)
            /\ FirstFailure(largs[i].options) # 0
               => /\ ~lreq[i].sent
                  /\ lpc[i] \in {"connect", "wait", "exited"}
                  /\ lpc[i] # "connect" => lerr[i] = OptionError(largs[i].options)
                  /\ lastLine[i] = NoLine /\ pending[i] = <<>>)
    /\ [][\A i \in issued : lpc[i] = "connect" /\ lpc'[i] # "connect"
            => lreq'[i] = RequestOf(largs[i].options)]_vars

\* A Poll given an option that succeeds followed by two that fail has
\* returned the error of the first failing one; the request has the first
\* option only and was not sent.
C11_Witness ==
    \E c \in Callers :
        /\ ret[c].op = "poll"
        /\ ret[c].options = <<"title", "bad2", "bad1">>
        /\ ret[c].err = Error("option", <<"bad2">>)
        /\ preq[c] = [applied |-> <<"title">>, sent |-> FALSE]

\* The rules of topic resolution, stated on the characters of the topic.
StartsWith(t, p) == Len(t) >= Len(p) /\ \A k \in 1..Len(p) : t[k] = p[k]
HasScheme(t) ==
    \/ StartsWith(t, <<"h", "t", "t", "p", ":", "/", "/">>)
    \/ StartsWith(t, <<"h", "t", "t", "p", "s", ":", "/", "/">>)
HasSlash(t) == "/" \in Range(t)
IsName(t) ==
    /\ Len(t) \in 1..MaxTopicLen
    /\ Range(t) \subseteq Letters \cup Digits \cup {"-", "_"}
\* The topic is refused; the URL of a topic that is not.
Refused(t) == ~HasScheme(t) /\ ~HasSlash(t) /\ ~IsName(t)
ResolvedURL(t) ==
    IF HasScheme(t) THEN t
    ELSE IF HasSlash(t) THEN <<"h", "t", "t", "p", "s", ":", "/", "/">> \o t
    ELSE config.DefaultHost \o <<"/">> \o t

Capped(b) == [k \in 1..(IF Len(b) < maxResponseBytes THEN Len(b) ELSE maxResponseBytes) |-> b[k]]
White(ch) == ch \in {" ", "\n", "\t", "\r"}
\* A text without the white space at its ends: from its first character that
\* is not white to its last.
Trimmed(b) ==
    IF \A k \in 1..Len(b) : White(b[k]) THEN <<>>
    ELSE LET first == CHOOSE k \in 1..Len(b) : ~White(b[k]) /\ \A j \in 1..(k - 1) : White(b[j])
             last == CHOOSE k \in 1..Len(b) : ~White(b[k]) /\ \A j \in (k + 1)..Len(b) : White(b[j])
         IN  [k \in 1..(last - first + 1) |-> b[first + k - 1]]
\* Publish's request was made and met a response that is not a 200.
PublishRefused(r) ==
    /\ r.op = "publish"
    /\ ~BadTopic(r) /\ ~BadOption(r) /\ r.err.kind # "parse"
    /\ r.outcome.kind = "response"
    /\ r.outcome.status # 200

C14_Original ==
    [][\A i \in IDs : ctxDone[i] => ~(lpc[i] = "connect" /\ lpc'[i] # "connect")]_vars

\* C14, amended: the loop exits only at its select, and only when its context
\* is canceled; there the exit is enabled; a loop that has exited does nothing
\* more.  An attempt may still start after the cancellation (the loop was
\* between two attempts, or the timer won the select): it opens no stream, it
\* ends with an error of the request and the loop is at its select again.
C14_CanceledTerminal ==
    /\ [](\A i \in IDs :
            /\ lpc[i] = "exited" => ctxDone[i] /\ i \in unsubscribed
            /\ ctxDone[i] /\ lpc[i] = "wait" /\ ~crashed => ENABLED LoopWaitCancel(i))
    /\ [][\A i \in IDs :
            /\ lpc[i] = "exited"
               => /\ lpc'[i] = "exited" /\ lerr'[i] = lerr[i] /\ lreq'[i] = lreq[i]
                  /\ lastLine'[i] = lastLine[i] /\ lmsg'[i] = lmsg[i]
                  /\ Len(pending'[i]) <= Len(pending[i])
            /\ lpc[i] # "exited" /\ lpc'[i] = "exited"
               => lpc[i] = "wait" /\ ctxDone[i]
            /\ ctxDone[i] /\ lpc[i] = "connect" /\ lpc'[i] # "connect"
               => /\ lpc'[i] = "wait"
                  /\ timer'[i] = 0
                  /\ lerr'[i].kind \in {"context canceled", "option", "parse"}
                  /\ lastLine'[i] = lastLine[i] /\ pending'[i] = pending[i]]_vars

\* A loop started an attempt after its subscription was canceled, the attempt
\* failed with the context's error, and the loop has exited at its select.
C14_Witness ==
    \E i \in unsubscribed :
        /\ ctxDone[i]
        /\ lerr[i].kind = "context canceled"
        /\ lreq[i].sent
        /\ lpc[i] = "exited"

\* C15 as stated: after Unsubscribe(id) the loop of id eventually exits,
\* whatever it was doing.
C15_EventuallyTerminates ==
    \A i \in IDs : (i \in unsubscribed) ~> (lpc[i] = "exited")

\* What the loops do reach after Unsubscribe: the exit, or the send on the full
\* channel, which only the application can end.
C15_TerminatesUnlessBlocked ==
    \A i \in IDs :
        (i \in unsubscribed)
            ~> (lpc[i] = "exited" \/ (lpc[i] = "push" /\ Len(Messages) = QueueCap))

\* C16: while its context is not canceled a loop never exits; every attempt
\* that ends, with any error or with none, leaves the loop at its select with
\* a timer just started; from there the loop only goes on to the next attempt,
\* when the retry delay has passed; and the loop is never without a next step:
\* at the select time can pass or the timer case can be taken, and the next
\* request can be made.
C16_RetriesForever ==
    /\ [](\A i \in IDs :
            ~ctxDone[i] /\ ~crashed
            => /\ lpc[i] # "exited"
               /\ lpc[i] = "connect"
                  => ENABLED (\E outcome \in scn.outcomes : LoopConnect(i, outcome))
               /\ lpc[i] = "wait"
                  => IF timer[i] >= RetryDelay
                     THEN ENABLED LoopWaitTimeout(i)
                     ELSE ENABLED Tick)
    /\ [][\A i \in IDs :
            ~ctxDone[i]
            => /\ lpc[i] \in {"connect", "read"} /\ lpc'[i] \notin {lpc[i], "read", "push"}
                  => lpc'[i] = "wait" /\ timer'[i] = 0
               /\ lpc[i] = "wait" /\ lpc'[i] # "wait"
                  => lpc'[i] = "connect" /\ timer[i] >= RetryDelay
               /\ lpc[i] = "wait" /\ lpc'[i] = "wait"
                  => timer'[i] >= timer[i]]_vars

\* A registered subscription whose attempt failed in the transport and whose
\* loop, the delay over, is about to make the next request.
C16_Witness ==
    \E i \in DOMAIN subscriptions :
        /\ ~ctxDone[i]
        /\ lpc[i] = "connect"
        /\ lerr[i].kind = "transport"
        /\ lreq[i].sent

\* C17: every id in the registry has one loop, started and not exited.  A
\* loop exists exactly for the ids issued; a loop starts only in the step of
\* the Subscribe that returns its id, which enters the id in the registry, and
\* for an id that had no loop; a loop once started is never started again.
C17_OneLoopPerSubscription ==
    /\ [](~crashed =>
            \A i \in IDs :
                /\ i \in DOMAIN subscriptions => lpc[i] \in {"connect", "read", "push", "wait"}
                /\ lpc[i] # "none" <=> i \in issued)
    /\ [][\A i \in IDs :
            /\ lpc[i] = "none" /\ lpc'[i] # "none"
               => /\ \E c \in Callers : SubscribeReturns(c) /\ ret'[c].id = i
                  /\ lpc'[i] = "connect"
                  /\ i \notin DOMAIN subscriptions /\ i \in DOMAIN subscriptions'
            /\ \A c \in Callers :
                  SubscribeReturns(c) /\ ret'[c].id = i
                  => lpc[i] = "none" /\ lpc'[i] = "connect"
            /\ lpc[i] # "none" => lpc'[i] # "none"
            /\ Cardinality({k \in IDs : lpc[k] = "none" /\ lpc'[k] # "none"}) <= 1]_vars

\* Two subscriptions registered, the loop of one waiting after a failed
\* attempt and the loop of the other reading its stream.
C17_Witness ==
    \E a, b \in DOMAIN subscriptions :
        /\ a # b
        /\ lpc[a] = "wait" /\ lerr[a] # Nil
        /\ lpc[b] = "read"

\* C18: the cancel of a subscription is invoked once, in the step that removes
\* its entry.  No cancel is invoked twice; the cancels invoked are those of the
\* ids issued and no longer registered; a cancel is invoked only by the
\* returning step of an Unsubscribe of that id that found the entry, and that
\* step removes the entry; a removal invokes the cancel once; an Unsubscribe
\* of an id unsubscribed before changes nothing.
C18_CancelOnceOnRemoval ==
    /\ [](\A i \in IDs :
            /\ cancelCalls[i] <= 1
            /\ cancelCalls[i] = 1 <=> i \in issued /\ i \notin DOMAIN subscriptions
            /\ cancelCalls[i] = 1 <=> ctxDone[i]
            /\ cancelCalls[i] = 1 <=> i \in unsubscribed)
    /\ [][\A i \in IDs :
            /\ cancelCalls'[i] # cancelCalls[i]
               => /\ i \in DOMAIN subscriptions /\ i \notin DOMAIN subscriptions'
                  /\ \E c \in Callers :
                        UnsubscribeReturns(c) /\ carg[c].id = i /\ ret'[c].found
            /\ i \in DOMAIN subscriptions /\ i \notin DOMAIN subscriptions'
               => cancelCalls'[i] = cancelCalls[i] + 1
            /\ \A c \in Callers :
                  UnsubscribeReturns(c) /\ carg[c].id = i /\ i \in unsubscribed
                  => /\ ~ret'[c].found
                     /\ UNCHANGED <<subscriptions, ctxDone, cancelCalls, unsubscribed,
                                    Messages, loopVars>>]_vars

\* Both callers have unsubscribed the same id: one found the entry, the other
\* did not, and the cancel was invoked once.
C18_Witness ==
    \E c, d \in Callers :
        /\ c # d
        /\ ret[c].op = "unsubscribe" /\ ret[d].op = "unsubscribe"
        /\ ret[c].id = ret[d].id
        /\ ret[c].found /\ ~ret[d].found
        /\ cancelCalls[ret[c].id] = 1

\* C19: the lock of the registry is held only inside the critical section of
\* Subscribe or Unsubscribe, which does no I/O and no send.  The holder is a
\* caller between Lock and the deferred Unlock, it runs no request of Publish
\* or Poll, and its critical section can complete whatever the loops are
\* doing; a caller that wants the free lock gets it; only the steps of
\* Subscribe and Unsubscribe change the lock, and no step of a loop, of a
\* Poll, of the clock or of the application does.
C19_LockNotHeldAcrossIO ==
    /\ [](/\ mu \in Callers \cup {0}
          /\ \A c \in Callers : cpc[c] \in {"sub_cs", "unsub_cs"} <=> mu = c
          /\ mu # 0 => hpc[mu] = "none"
          /\ mu # 0 /\ ~crashed => ENABLED (SubscribeBody(mu) \/ UnsubscribeBody(mu))
          /\ \A c \in Callers :
                mu = 0 /\ CanCall(c, "unsubscribe")
                => ENABLED (\E i \in IDs : UnsubscribeCall(c, i)))
    /\ [][/\ mu' # mu
             => \E c \in Callers :
                   /\ cpc'[c] # cpc[c]
                   /\ \/ mu = 0 /\ mu' = c
                      \/ mu = c /\ mu' = 0
          /\ mu # 0 /\ mu' = mu
             => UNCHANGED <<subscriptions, ctxDone, cancelCalls, issued, unsubscribed>>
          /\ \A c \in Callers :
                SubscribeReturns(c) \/ UnsubscribeReturns(c)
                => /\ mu = c /\ mu' = 0
                   /\ Messages' = Messages
                   /\ \A i \in IDs : lpc[i] # "none" => lpc'[i] = lpc[i]]_vars

\* A caller of Unsubscribe holds the lock while every subscription is stalled:
\* two are registered and the loop of each waits for a line of a stream on
\* which the server sends nothing more and which it does not end.
C19_Witness ==
    /\ mu # 0
    /\ cpc[mu] = "unsub_cs"
    /\ Cardinality(DOMAIN subscriptions) = 2
    /\ nlines = scn.lines
    /\ ~scn.closes
    /\ \A i \in DOMAIN subscriptions : lpc[i] = "read"

\* C20: every message in the channel carries the id of an issued subscription,
\* the topic URL that subscription's Subscribe resolved, and as Raw the line
\* it was decoded from, a message event.  The id and the URL a loop stamps are
\* fixed when the loop starts and never change.  The message a send adds is
\* the one decoded from the line its loop read last, stamped with that loop's
\* id.  The messages Publish and Poll return carry the empty id (0, which is
\* no subscription's id) and the URL their topic resolves to.
C20_MessagesStamped ==
    /\ [](/\ 0 \notin IDs
          /\ \A k \in 1..Len(Messages) :
                LET m == Messages[k]
                    i == m.SubscriptionID
                IN  /\ i \in issued
                    /\ m.TopicURL = expandTopicURL(largs[i].topic).url
                    /\ IsMessageLine(m.Raw)
                    /\ m.ID = m.Raw.id /\ m.Message = m.Raw.message /\ m.Event = MessageEvent
          /\ \A i \in issued :
                largs[i].id = i /\ largs[i].topicURL = expandTopicURL(largs[i].topic).url
          /\ \A c \in Callers :
                /\ ret[c].op = "publish" /\ ret[c].err = Nil
                   => /\ ret[c].m.SubscriptionID = 0
                      /\ ret[c].m.TopicURL = expandTopicURL(ret[c].topic).url
                /\ \A k \in 1..Len(pmsgs[c]) : pmsgs[c][k].SubscriptionID = 0
                /\ ret[c].op = "poll"
                   => \A k \in 1..Len(ret[c].msgs) :
                         /\ ret[c].msgs[k].SubscriptionID = 0
                         /\ ret[c].msgs[k].TopicURL = expandTopicURL(ret[c].topic).url)
    /\ [][/\ \A i \in issued : largs'[i] = largs[i]
          /\ Len(Messages') > Len(Messages)
             => LET m == Messages'[Len(Messages')]
                    i == m.SubscriptionID
                IN  /\ i \in issued
                    /\ lpc[i] = "push"
                    /\ m.Raw = lastLine[i]
                    /\ m.SubscriptionID = largs[i].id]_vars

\* The only subscription has a message in the channel, with its id and its
\* URL, and its loop has reconnected since: it has opened a stream of which it
\* has read no line yet, and the server can still send one.
C20_Witness ==
    \E i \in IDs :
        /\ issued = {i}
        /\ Len(Queued(i)) >= 1
        /\ Messages[1].SubscriptionID = i
        /\ Messages[1].TopicURL = largs[i].topicURL
        /\ lpc[i] = "read"
        /\ lastLine[i] = NoLine
        /\ nlines < scn.lines

\* C21 as stated: once Unsubscribe(id) has returned, no message with that id
\* is added to the channel.
C21_NoMessageAfterUnsubscribe ==
    [][\A i \in unsubscribed :
          Len(SelectSeq(Messages', LAMBDA m : m.SubscriptionID = i)) <= Len(Queued(i))]_vars

\* What does hold after Unsubscribe(id) has returned: a message with that id
\* enters the channel only from the attempt that was running, as the message
\* its loop held in the send or decoded from a line of the stream already
\* open; no stream is opened for id any more.
C21_OnlyFromRunningAttempt ==
    [][\A i \in unsubscribed :
          /\ Len(SelectSeq(Messages', LAMBDA m : m.SubscriptionID = i)) > Len(Queued(i))
             => lpc[i] = "push" /\ Messages' = Append(Messages, lmsg[i])
          /\ lpc[i] = "connect" => lpc'[i] \in {"connect", "wait"}]_vars

\* C22: Poll does not deadlock and leaves no goroutine behind.  The helper
\* exists exactly while its Poll is in progress; while the helper is at or
\* before close(msgChan) the caller is in its range, and while the helper is at
\* its send on errChan the caller is at its receive from errChan; each step of
\* the helper that needs the caller (a send of a message, the close, the send
\* of the error) is enabled whenever the helper is at it, and so is the
\* request; Poll returns only in the step that takes the helper's error, which
\* ends the helper; and once performSubscribeRequest has returned in the
\* helper, with an error or without, Poll returns and the helper is gone.
C22_PollCompletes ==
    /\ [](\A c \in Callers :
            /\ hpc[c] # "none" <=> cpc[c] \in {"poll_range", "poll_err"}
            /\ hpc[c] \in {"connect", "read", "push", "close"} => cpc[c] = "poll_range"
            /\ hpc[c] = "senderr" <=> cpc[c] = "poll_err"
            /\ ~crashed
               => /\ hpc[c] = "connect"
                     => ENABLED (\E outcome \in scn.outcomes : HelperConnect(c, outcome))
                  /\ hpc[c] = "push" => ENABLED HelperPush(c)
                  /\ hpc[c] = "close" => ENABLED HelperClose(c)
                  /\ hpc[c] = "senderr" => ENABLED HelperSendErr(c))
    /\ [][\A c \in Callers :
            cpc[c] \in {"poll_range", "poll_err"} /\ cpc'[c] = "idle"
            => /\ hpc[c] = "senderr" /\ hpc'[c] = "none"
               /\ ret'[c].op = "poll" /\ ret'[c].err = herr[c]]_vars
    /\ \A c \in Callers :
          (hpc[c] = "close")
              ~> (crashed \/ (hpc[c] = "none" /\ cpc[c] = "idle" /\ ret[c].op = "poll"))

\* A Poll whose request failed in the transport, before any line was read, has
\* returned that error, and its helper is gone.
C22_Witness ==
    \E c \in Callers :
        /\ ret[c].op = "poll"
        /\ ret[c].err.kind = "transport"
        /\ pconn[c] = "failed"
        /\ pscan[c] = <<>>
        /\ cpc[c] = "idle"
        /\ hpc[c] = "none"

\* The lines a task has passed to toMessage so far.
LinesDecoded ==
    {lastLine[i] : i \in IDs} \cup UNION {Range(pscan[c]) : c \in Callers}
        \cup {ret[c].outcome.line : c \in {d \in Callers : ret[d].op = "publish" /\ ret[d].err = Nil}}

\* C23 as stated: the decoder is total.  The process never panics, and every
\* line a task has decoded gave a Message that is not nil or a decode error.
C23_DecoderTotal ==
    /\ ~crashed
    /\ \A l \in LinesDecoded \ {NoLine} :
          /\ ~Decoded(l).panic
          /\ Decoded(l).err # Nil \/ Decoded(l).m # NilMessage

\* What does hold: the process panics only in a task that decodes the text
\* null, and every other line (an object, malformed text, an empty line,
\* another JSON value) gives a Message that is not nil or a decode error, and
\* not both.
C23_TotalExceptNull ==
    /\ [](\A l \in (LinesDecoded \cup scn.lineSet) \ {NoLine, LNull} :
            /\ ~Decoded(l).panic
            /\ Decoded(l).err # Nil <=> Decoded(l).m = NilMessage
            /\ l.json = "object" <=> Decoded(l).err = Nil)
    /\ [][crashed' /\ ~crashed
          => \/ \E i \in IDs : lpc[i] = "read" /\ lastLine'[i] = LNull
             \/ \E c \in Callers :
                   hpc[c] = "read" /\ Len(pscan'[c]) > Len(pscan[c])
                                   /\ pscan'[c][Len(pscan'[c])] = LNull
             \/ \E c \in Callers : cpc[c] = "idle" /\ ncalls' > ncalls]_vars

\* A step of a Poll or of a Publish: the call, a step of Poll's helper, a
\* return with the result of one of them.
PollOrPublishStep ==
    \/ pollVars' # pollVars
    \/ \E c \in Callers :
          \/ cpc[c] = "idle" /\ cpc'[c] = "poll_range"
          \/ cpc[c] \in {"poll_range", "poll_err"} /\ cpc'[c] # cpc[c]
          \/ ret'[c] # ret[c] /\ ret'[c].op \in {"poll", "publish"}

\* C24: Publish and Poll leave the Client's shared state as it is.  A step of
\* a Poll or of a Publish changes neither the registry, nor a context, nor the
\* count of a cancel, nor the ids issued, nor the lock, nor the channel, nor
\* anything of a subscription's loop; and no message of a Poll or a Publish
\* (they carry the empty id) is ever in the channel.
C24_PollPublishFrame ==
    /\ [](\A k \in 1..Len(Messages) : Messages[k].SubscriptionID \in IDs)
    /\ [][PollOrPublishStep /\ ~crashed'
          => UNCHANGED <<Messages, subscriptions, mu, ctxDone, cancelCalls, issued,
                         unsubscribed, loopVars>>]_vars

\* A Poll has returned a message while a subscription is registered, its
\* loop has a stream open and its message is in the channel.
C24_Witness ==
    \E c \in Callers, i \in DOMAIN subscriptions :
        /\ ret[c].op = "poll" /\ ret[c].err = Nil
        /\ Len(ret[c].msgs) = 1
        /\ lpc[i] = "read"
        /\ Len(Queued(i)) = 1
        /\ Len(Messages) = 1

====
